---- MODULE Spec2Model ----
(***************************************************************************)
(* Thumbnail lifecycle of backend/app/image_processor.py: the derived      *)
(* paths of an original image, generate_thumbnails, delete_thumbnails and  *)
(* delete_original_and_thumbnails, acting on a filesystem that the         *)
(* surrounding application (backend/app/main.py) fills with originals.     *)
(*                                                                         *)
(* A path is a record [abs, dirs, stem, ext]: pathlib's is_absolute(), the *)
(* components of its parent, its stem and its suffix without the dot.  A   *)
(* stem is the sequence of its hyphen-separated pieces, so the f-string    *)
(* f"{stem}-{suffix}" is sequence concatenation.  The filesystem is the    *)
(* set of absolute paths of the files that exist.                          *)
(***************************************************************************)
EXTENDS Integers, Sequences, FiniteSets, TLC

VARIABLES
    files,       \* the absolute paths of the files that exist
    hasPillow,   \* HAS_PILLOW: decided once, at import
    static_dir,  \* the base directory the callers pass
    inputs,      \* the original_path arguments the callers pass
    faults,      \* how many single saves and unlinks have raised so far
    last,        \* the most recent call: its arguments, result and effect
    seen,        \* the originals of inputs that have existed at some time
    procs,       \* the calls in flight when callers overlap, file by file
    query        \* the most recent application of a pure function

vars == <<files, hasPillow, static_dir, inputs, faults, last, seen, procs, query>>

(***************************************************************************)
(* Bounds.                                                                 *)
(***************************************************************************)
\* At most this many individual saves (generate) and unlinks (delete) raise
\* in one behaviour, besides the saves of an AVIF encoder that is missing.
MaxFaults == 1

\* The longest explicit format list passed to get_thumbnail_paths.
MaxFormats == 2

(***************************************************************************)
(* Configuration of the module.                                            *)
(***************************************************************************)
THUMBNAIL_SIZES ==
    << [width |-> 110, height |-> 110, suffix |-> <<"thumb", "sm">>],
       [width |-> 220, height |-> 220, suffix |-> <<"thumb", "md">>],
       [width |-> 165, height |-> 165, suffix |-> <<"thumb", "detail">>],
       [width |-> 330, height |-> 330, suffix |-> <<"thumb", "detail", "2x">>] >>

CarouselSuffix == <<"carousel">>

\* The formats delete_thumbnails and get_thumbnail_paths enumerate.
DefaultFormats == <<"webp", "avif", "jpg">>

(***************************************************************************)
(* pathlib.                                                                *)
(***************************************************************************)
\* The working directory of the process: relative paths are looked up here.
Cwd == <<"app">>

Dir(isAbs, dirs) == [abs |-> isAbs, dirs |-> dirs]

File(isAbs, dirs, stem, ext) ==
    [abs |-> isAbs, dirs |-> dirs, stem |-> stem, ext |-> ext]

\* base / p
Join(base, p) ==
    IF p.abs THEN p
    ELSE [p EXCEPT !.abs = base.abs, !.dirs = base.dirs \o p.dirs]

\* p.parent
Parent(p) == Dir(p.abs, p.dirs)

\* Mutant: the name alone, not joined to the parent.
DerivedPath_NoParent(p, suffix, fmt) ==
    [abs |-> FALSE, dirs |-> <<>>, stem |-> p.stem \o suffix, ext |-> fmt]

\* p.parent / f"{p.stem}-{suffix}.{fmt}"
DerivedPath(p, suffix, fmt) ==
    [abs |-> p.abs, dirs |-> p.dirs, stem |-> p.stem \o suffix, ext |-> fmt]

\* The file the operating system looks up for p.
FsKey(p) ==
    IF p.abs THEN p ELSE [p EXCEPT !.abs = TRUE, !.dirs = Cwd \o p.dirs]

\* p.exists() in filesystem fs
Exists(fs, p) == FsKey(p) \in fs

\* str.lower() on the suffixes that occur
Lower(ext) ==
    CASE ext = "JPG" -> "jpg"
      [] ext = "PNG" -> "png"
      [] ext = "SVG" -> "svg"
      [] ext = "Jpg" -> "jpg"
      [] ext = "JPEG" -> "jpeg"
      [] ext = "GIF" -> "gif"
      [] ext = "WebP" -> "webp"
      [] ext = "BMP" -> "bmp"
      [] ext = "TIFF" -> "tiff"
      [] ext = "Tiff" -> "tiff"
      [] OTHER -> ext

ProcessableExts == {"jpg", "jpeg", "png", "gif", "webp", "bmp", "tiff"}

\* Mutant: the suffix is compared as it is written.
is_image_processable_CaseSensitive(p) == p.ext \in ProcessableExts

is_image_processable(p) == Lower(p.ext) \in ProcessableExts

\* "if not original_path.is_absolute(): original_path = static_dir / original_path"
Resolve(base, p) == IF ~p.abs THEN Join(base, p) ELSE p

(***************************************************************************)
(* The derived paths.                                                      *)
(***************************************************************************)
Range(s) == {s[i] : i \in 1..Len(s)}

SizeSuffixes == [i \in 1..Len(THUMBNAIL_SIZES) |-> THUMBNAIL_SIZES[i].suffix]

\* One encode of generate_thumbnails: a suffix and a format.
Step(suffix, fmt) == [suffix |-> suffix, fmt |-> fmt]

\* Mutant: the legacy format is saved whatever the flag says.
SizeSteps_AlwaysJpg(suffix, keep) ==
    <<Step(suffix, "webp"), Step(suffix, "avif"), Step(suffix, "jpg")>>

\* The encodes of one size, in the order of the loop body.
SizeSteps(suffix, keep) ==
    <<Step(suffix, "webp"), Step(suffix, "avif")>>
        \o (IF keep THEN <<Step(suffix, "jpg")>> ELSE <<>>)

RECURSIVE ThumbSteps(_, _)
ThumbSteps(i, keep) ==
    IF i > Len(THUMBNAIL_SIZES) THEN <<>>
    ELSE SizeSteps(THUMBNAIL_SIZES[i].suffix, keep) \o ThumbSteps(i + 1, keep)

\* Mutant: the carousel is saved in the legacy format as well.
GenSteps_CarouselJpg(keep) ==
    <<Step(CarouselSuffix, "webp"), Step(CarouselSuffix, "jpg")>>
        \o ThumbSteps(1, keep)

\* Mutant: the carousel is saved last.
GenSteps_CarouselLast(keep) == ThumbSteps(1, keep) \o <<Step(CarouselSuffix, "webp")>>

\* Every save of generate_thumbnails, in program order.
GenSteps(keep) == <<Step(CarouselSuffix, "webp")>> \o ThumbSteps(1, keep)

\* Mutant: no save has a try/except of its own.
Guarded_None(step) == FALSE

\* The AVIF save sits in its own try/except; every other save does not.
Guarded(step) == step.fmt = "avif"

RECURSIVE FormatSteps(_, _)
FormatSteps(suffix, j) ==
    IF j > Len(DefaultFormats) THEN <<>>
    ELSE <<Step(suffix, DefaultFormats[j])>> \o FormatSteps(suffix, j + 1)

RECURSIVE SizeDeleteSteps(_)
SizeDeleteSteps(i) ==
    IF i > Len(THUMBNAIL_SIZES) THEN <<>>
    ELSE FormatSteps(THUMBNAIL_SIZES[i].suffix, 1) \o SizeDeleteSteps(i + 1)

\* Mutant: the format list of the delete loop lacks "avif".
DeleteSteps_NoAvif ==
    <<Step(CarouselSuffix, "webp")>>
        \o SelectSeq(SizeDeleteSteps(1), LAMBDA s : s.fmt # "avif")

\* Every path delete_thumbnails looks at, in program order.
DeleteSteps == <<Step(CarouselSuffix, "webp")>> \o SizeDeleteSteps(1)

\* Mutant: the derived name leaves the stem out.
StepPath_NoStem(p, step) ==
    [abs |-> p.abs, dirs |-> p.dirs, stem |-> step.suffix, ext |-> step.fmt]

StepPath(p, step) == DerivedPath(p, step.suffix, step.fmt)

(***************************************************************************)
(* The filesystem calls.                                                   *)
(***************************************************************************)
\* img.save(path, ...) that returns: the file exists afterwards.
Save(fs, path) == fs \cup {FsKey(path)}

\* path.unlink() that returns: the file is gone afterwards.
Unlink(fs, path) == fs \ {FsKey(path)}

\* What a call hands back to the model: its return value, the branch that
\* produced it (the log line), the filesystem it leaves, the files it wrote
\* and removed, and the files whose save or unlink raised.
Outcome(ret, reason, fs, written, removed, failed) ==
    [ret |-> ret, reason |-> reason, fs |-> fs,
     written |-> written, removed |-> removed, failed |-> failed]

(***************************************************************************)
(* generate_thumbnails                                                     *)
(***************************************************************************)
\* Whether the save of this step raises: the AVIF encoder is not installed,
\* or this one encode fails.  A save that raises leaves no new file.
Raises(step, avifOk, encFail) ==
    \/ step.fmt = "avif" /\ ~avifOk
    \/ step \in encFail

\* Mutant: every save has a try/except of its own, so the loop goes on
\* after any raise and the call returns True.
RECURSIVE RunEncodes_Continue(_, _, _, _, _, _, _, _)
RunEncodes_Continue(fs, p, steps, i, avifOk, encFail, written, failed) ==
    IF i > Len(steps)
    THEN Outcome(TRUE, "generated", fs, written, {}, failed)
    ELSE LET step == steps[i]
             path == StepPath(p, step)
         IN  IF Raises(step, avifOk, encFail)
             THEN RunEncodes_Continue(fs, p, steps, i + 1, avifOk, encFail,
                                      written, failed \cup {FsKey(path)})
             ELSE RunEncodes_Continue(Save(fs, path), p, steps, i + 1, avifOk,
                                      encFail, written \cup {FsKey(path)}, failed)

\* The saves from step i on, inside "with Image.open(...)": a raise in a
\* guarded save is logged and the loop goes on; any other raise leaves the
\* try block for "except Exception", which returns False.
RECURSIVE RunEncodes(_, _, _, _, _, _, _, _)
RunEncodes(fs, p, steps, i, avifOk, encFail, written, failed) ==
    IF i > Len(steps)
    THEN Outcome(TRUE, "generated", fs, written, {}, failed)
    ELSE LET step == steps[i]
             path == StepPath(p, step)
         IN  IF Raises(step, avifOk, encFail)
             THEN IF Guarded(step)
                  THEN RunEncodes(fs, p, steps, i + 1, avifOk, encFail,
                                  written, failed \cup {FsKey(path)})
                  ELSE Outcome(FALSE, "error", fs, written, {},
                               failed \cup {FsKey(path)})
             ELSE RunEncodes(Save(fs, path), p, steps, i + 1, avifOk, encFail,
                             written \cup {FsKey(path)}, failed)

\* Mutant: the extension is checked before the file is looked up.
generate_thumbnails_ExtFirst(fs, pillow, base, original_path, keep, decodeOk, avifOk, encFail) ==
    LET p == Resolve(base, original_path)
    IN  IF ~pillow
        THEN Outcome(FALSE, "no_pillow", fs, {}, {}, {})
        ELSE IF ~is_image_processable(p)
        THEN Outcome(FALSE, "not_processable", fs, {}, {}, {})
        ELSE IF ~Exists(fs, p)
        THEN Outcome(FALSE, "not_found", fs, {}, {}, {})
        ELSE IF ~decodeOk
        THEN Outcome(FALSE, "error", fs, {}, {}, {})
        ELSE RunEncodes(fs, p, GenSteps(keep), 1, avifOk, encFail, {}, {})

\* Mutant: the original is not looked up before it is opened and the open
\* is taken to work.
generate_thumbnails_NoExistsCheck(fs, pillow, base, original_path, keep, decodeOk, avifOk, encFail) ==
    LET p == Resolve(base, original_path)
    IN  IF ~pillow
        THEN Outcome(FALSE, "no_pillow", fs, {}, {}, {})
        ELSE IF ~is_image_processable(p)
        THEN Outcome(FALSE, "not_processable", fs, {}, {}, {})
        ELSE IF ~decodeOk
        THEN Outcome(FALSE, "error", fs, {}, {}, {})
        ELSE RunEncodes(fs, p, GenSteps(keep), 1, avifOk, encFail, {}, {})

generate_thumbnails(fs, pillow, base, original_path, keep, decodeOk, avifOk, encFail) ==
    LET p == Resolve(base, original_path)
    IN  IF ~pillow
        THEN Outcome(FALSE, "no_pillow", fs, {}, {}, {})
        ELSE IF ~Exists(fs, p)
        THEN Outcome(FALSE, "not_found", fs, {}, {}, {})
        ELSE IF ~is_image_processable(p)
        THEN Outcome(FALSE, "not_processable", fs, {}, {}, {})
        ELSE IF ~decodeOk
        THEN Outcome(FALSE, "error", fs, {}, {}, {})
        ELSE RunEncodes(fs, p, GenSteps(keep), 1, avifOk, encFail, {}, {})

(***************************************************************************)
(* delete_thumbnails                                                       *)
(***************************************************************************)
\* Mutant: the loop ends at the first path that does not exist.
RECURSIVE RunUnlinks_StopAtAbsent(_, _, _, _, _, _)
RunUnlinks_StopAtAbsent(fs, p, i, unlinkFail, removed, failed) ==
    IF i > Len(DeleteSteps)
    THEN Outcome(TRUE, "deleted", fs, {}, removed, failed)
    ELSE LET path == StepPath(p, DeleteSteps[i])
         IN  IF ~Exists(fs, path)
             THEN Outcome(TRUE, "deleted", fs, {}, removed, failed)
             ELSE IF FsKey(path) \in unlinkFail
             THEN RunUnlinks_StopAtAbsent(fs, p, i + 1, unlinkFail, removed,
                                          failed \cup {FsKey(path)})
             ELSE RunUnlinks_StopAtAbsent(Unlink(fs, path), p, i + 1, unlinkFail,
                                          removed \cup {FsKey(path)}, failed)

\* Mutant: the first unlink that raises ends the loop.
RECURSIVE RunUnlinks_StopAtError(_, _, _, _, _, _)
RunUnlinks_StopAtError(fs, p, i, unlinkFail, removed, failed) ==
    IF i > Len(DeleteSteps)
    THEN Outcome(TRUE, "deleted", fs, {}, removed, failed)
    ELSE LET path == StepPath(p, DeleteSteps[i])
         IN  IF ~Exists(fs, path)
             THEN RunUnlinks_StopAtError(fs, p, i + 1, unlinkFail, removed, failed)
             ELSE IF FsKey(path) \in unlinkFail
             THEN Outcome(TRUE, "deleted", fs, {}, removed,
                          failed \cup {FsKey(path)})
             ELSE RunUnlinks_StopAtError(Unlink(fs, path), p, i + 1, unlinkFail,
                                         removed \cup {FsKey(path)}, failed)

\* The unlinks from step i on: a path that does not exist is skipped, an
\* unlink that raises is logged and the loop goes on.
RECURSIVE RunUnlinks(_, _, _, _, _, _)
RunUnlinks(fs, p, i, unlinkFail, removed, failed) ==
    IF i > Len(DeleteSteps)
    THEN Outcome(TRUE, "deleted", fs, {}, removed, failed)
    ELSE LET path == StepPath(p, DeleteSteps[i])
         IN  IF ~Exists(fs, path)
             THEN RunUnlinks(fs, p, i + 1, unlinkFail, removed, failed)
             ELSE IF FsKey(path) \in unlinkFail
             THEN RunUnlinks(fs, p, i + 1, unlinkFail, removed,
                             failed \cup {FsKey(path)})
             ELSE RunUnlinks(Unlink(fs, path), p, i + 1, unlinkFail,
                             removed \cup {FsKey(path)}, failed)

\* Mutant: the result is "deleted_count > 0".
delete_thumbnails_CountResult(fs, base, original_path, unlinkFail) ==
    LET p == Resolve(base, original_path)
    IN  IF ~Exists(fs, p)
        THEN Outcome(FALSE, "not_found", fs, {}, {}, {})
        ELSE LET out == RunUnlinks(fs, p, 1, unlinkFail, {}, {})
             IN  [out EXCEPT !.ret = out.removed # {}]

delete_thumbnails(fs, base, original_path, unlinkFail) ==
    LET p == Resolve(base, original_path)
    IN  IF ~Exists(fs, p)
        THEN Outcome(FALSE, "not_found", fs, {}, {}, {})
        ELSE RunUnlinks(fs, p, 1, unlinkFail, {}, {})

(***************************************************************************)
(* delete_original_and_thumbnails                                          *)
(***************************************************************************)
\* Mutant: the unlink of the original has no try/except, so its exception
\* leaves the function.
delete_original_and_thumbnails_NoTry(fs, base, original_path, unlinkFail) ==
    LET p      == Resolve(base, original_path)
        thumbs == delete_thumbnails(fs, base, p, unlinkFail)
        fs1    == thumbs.fs
    IN  IF ~Exists(fs1, p)
        THEN Outcome(thumbs.ret, "original_absent", fs1, {},
                     thumbs.removed, thumbs.failed)
        ELSE IF FsKey(p) \in unlinkFail
        THEN Outcome(FALSE, "raised", fs1, {},
                     thumbs.removed, thumbs.failed \cup {FsKey(p)})
        ELSE Outcome(thumbs.ret, "deleted", Unlink(fs1, p), {},
                     thumbs.removed \cup {FsKey(p)}, thumbs.failed)

delete_original_and_thumbnails(fs, base, original_path, unlinkFail) ==
    LET p      == Resolve(base, original_path)
        thumbs == delete_thumbnails(fs, base, p, unlinkFail)
        fs1    == thumbs.fs
    IN  IF ~Exists(fs1, p)
        THEN Outcome(thumbs.ret, "original_absent", fs1, {},
                     thumbs.removed, thumbs.failed)
        ELSE IF FsKey(p) \in unlinkFail
        THEN Outcome(FALSE, "unlink_error", fs1, {},
                     thumbs.removed, thumbs.failed \cup {FsKey(p)})
        ELSE Outcome(thumbs.ret, "deleted", Unlink(fs1, p), {},
                     thumbs.removed \cup {FsKey(p)}, thumbs.failed)

(***************************************************************************)
(* The callers and the state machine.                                      *)
(***************************************************************************)
\* The file behind argument original_path, and its 13 derived files.
OriginalKey(base, original_path) == FsKey(Resolve(base, original_path))

DerivedKeys(base, original_path) ==
    {FsKey(StepPath(Resolve(base, original_path), s)) : s \in Range(DeleteSteps)}

\* The files of fs in the directory of file key k.
InDirOf(fs, k) == {f \in fs : f.dirs = k.dirs}

\* The subsets of S with at most n elements.
RECURSIVE FaultSets(_, _)
FaultSets(S, n) ==
    IF n = 0 THEN {{}}
    ELSE LET smaller == FaultSets(S, n - 1)
         IN  smaller \cup {T \cup {x} : T \in smaller, x \in S}

\* What the environment decides for one generate call: whether the decode
\* works, whether an AVIF encoder is installed, and which single encodes
\* raise.  Where the call returns before it reads a choice, the choice is
\* not enumerated.
Env(decodeOk, avifOk, encFail) ==
    [decodeOk |-> decodeOk, avifOk |-> avifOk, encFail |-> encFail]

GenerateEnvs(fs, pillow, base, p, keep, budget) ==
    IF generate_thumbnails(fs, pillow, base, p, keep, FALSE, TRUE, {}).reason # "error"
    THEN {Env(TRUE, TRUE, {})}
    ELSE {Env(FALSE, TRUE, {})}
         \cup {Env(TRUE, TRUE, encFail) :
                 encFail \in FaultSets(Range(GenSteps(keep)), budget)}
         \cup {Env(TRUE, FALSE, encFail) :
                 encFail \in FaultSets({s \in Range(GenSteps(keep)) : s.fmt # "avif"},
                                       budget)}

\* The sets of files whose unlink raises in one delete call: files that
\* exist, among the original and its derived files.
UnlinkFaults(fs, base, p, budget) ==
    FaultSets(fs \cap (DerivedKeys(base, p) \cup {OriginalKey(base, p)}), budget)

\* The record of a call: its arguments, whether an AVIF encoder was there
\* for it, its return value, the branch that
\* produced it, the files whose save or unlink raised, and the number of
\* files it wrote or removed.  trip follows the calls since the directory
\* held only the original: "generated" after a generate that returned True
\* there, "regenerated" after each further generate of the same original
\* that returned True right after, "deleted" after
\* delete_original_and_thumbnails with the same argument right after the
\* first generate with no unlink raising, "none" otherwise.
Call(op, path, keep, avifOk, out, trip) ==
    [op |-> op, path |-> path, keep |-> keep, avifOk |-> avifOk,
     ret |-> out.ret, reason |-> out.reason, failed |-> out.failed,
     count |-> Cardinality(out.written) + Cardinality(out.removed),
     trip |-> trip]

NoCall ==
    [op |-> "none", path |-> Dir(TRUE, <<>>), keep |-> FALSE, avifOk |-> TRUE,
     ret |-> FALSE, reason |-> "none", failed |-> {}, count |-> 0,
     trip |-> "none"]

\* No call in flight, no pure function applied yet.
NoProcs == <<>>

NoQuery == [fn |-> "none"]

\* The originals of inputs that exist in fs, added to those seen before.
SeenAfter(fs) ==
    seen \cup {k \in fs : \E p \in inputs : k = OriginalKey(static_dir, p)}

\* Originals the application stores: photos under the static directory.
PhotoDir == <<"uploads", "photos">>

AppStaticDir == Dir(TRUE, <<"app", "static">>)

AppInputs ==
    { File(FALSE, PhotoDir, <<"a1">>, "jpg"),
      File(TRUE, AppStaticDir.dirs \o PhotoDir, <<"logo">>, "svg") }

Init ==
    /\ files = {}
    /\ hasPillow \in BOOLEAN
    /\ static_dir = AppStaticDir
    /\ inputs = AppInputs
    /\ faults = 0
    /\ last = NoCall
    /\ seen = {}
    /\ procs = NoProcs
    /\ query = NoQuery

\* save_upload: the application writes an original under the static directory.
Upload(p) ==
    LET k == FsKey(Join(static_dir, p))
    IN  /\ k \notin files
        /\ files' = files \cup {k}
        /\ last' = Call("upload", p, FALSE, TRUE,
                        Outcome(TRUE, "saved", files \cup {k}, {k}, {}, {}), "none")
        /\ seen' = SeenAfter(files')
        /\ UNCHANGED <<hasPillow, static_dir, inputs, faults, procs, query>>

\* The application removes an original itself: "if p.exists(): p.unlink()".
RemoveOriginal(p) ==
    LET k == FsKey(Join(static_dir, p))
    IN  /\ k \in files
        /\ files' = files \ {k}
        /\ last' = Call("unlink", p, FALSE, TRUE,
                        Outcome(TRUE, "removed", files \ {k}, {}, {k}, {}), "none")
        /\ seen' = SeenAfter(files')
        /\ UNCHANGED <<hasPillow, static_dir, inputs, faults, procs, query>>

Generate(p, keep, env) ==
    LET out  == generate_thumbnails(files, hasPillow, static_dir, p, keep,
                                    env.decodeOk, env.avifOk, env.encFail)
        k    == OriginalKey(static_dir, p)
        trip == IF out.ret /\ InDirOf(files, k) = {k} THEN "generated"
                ELSE IF /\ out.ret
                        /\ last.op = "generate"
                        /\ last.trip \in {"generated", "regenerated"}
                        /\ OriginalKey(static_dir, last.path) = k
                     THEN "regenerated"
                     ELSE "none"
    IN  /\ files' = out.fs
        /\ last' = Call("generate", p, keep, env.avifOk, out, trip)
        /\ faults' = faults + Cardinality(env.encFail)
        /\ seen' = SeenAfter(files')
        /\ UNCHANGED <<hasPillow, static_dir, inputs, procs, query>>

DeleteThumbnails(p, unlinkFail) ==
    LET out == delete_thumbnails(files, static_dir, p, unlinkFail)
    IN  /\ files' = out.fs
        /\ last' = Call("delete_thumbnails", p, FALSE, TRUE, out, "none")
        /\ faults' = faults + Cardinality(unlinkFail)
        /\ seen' = SeenAfter(files')
        /\ UNCHANGED <<hasPillow, static_dir, inputs, procs, query>>

DeleteOriginalAndThumbnails(p, unlinkFail) ==
    LET out  == delete_original_and_thumbnails(files, static_dir, p, unlinkFail)
        trip == IF /\ last.op = "generate"
                   /\ last.trip = "generated"
                   /\ last.path = p
                   /\ unlinkFail = {}
                THEN "deleted" ELSE "none"
    IN  /\ files' = out.fs
        /\ last' = Call("delete_original_and_thumbnails", p, FALSE, TRUE, out, trip)
        /\ faults' = faults + Cardinality(unlinkFail)
        /\ seen' = SeenAfter(files')
        /\ UNCHANGED <<hasPillow, static_dir, inputs, procs, query>>

Next ==
    \/ \E p \in inputs : Upload(p)
    \/ \E p \in inputs : RemoveOriginal(p)
    \/ \E p \in inputs, keep \in BOOLEAN :
          \E env \in GenerateEnvs(files, hasPillow, static_dir, p, keep,
                                   MaxFaults - faults) :
            Generate(p, keep, env)
    \/ \E p \in inputs :
          \E unlinkFail \in UnlinkFaults(files, static_dir, p, MaxFaults - faults) :
            DeleteThumbnails(p, unlinkFail)
    \/ \E p \in inputs :
          \E unlinkFail \in UnlinkFaults(files, static_dir, p, MaxFaults - faults) :
            DeleteOriginalAndThumbnails(p, unlinkFail)

Spec == Init /\ [][Next]_vars

(***************************************************************************)
(* What the properties speak of.                                           *)
(***************************************************************************)
ThumbSuffixes ==
    { <<"thumb", "sm">>, <<"thumb", "md">>, <<"thumb", "detail">>,
      <<"thumb", "detail", "2x">> }

\* The original of the most recent call and the files derived from it.
LastOriginal == OriginalKey(static_dir, last.path)

DerivedFile(orig, suffix, fmt) == FsKey(DerivedPath(orig, suffix, fmt))

ThumbFiles(orig, fmts) ==
    {DerivedFile(orig, suffix, fmt) : suffix \in ThumbSuffixes, fmt \in fmts}

CarouselFile(orig) == DerivedFile(orig, <<"carousel">>, "webp")

\* The 13 derived files: the carousel and 4 sizes in 3 formats.
DerivedFiles(orig) ==
    {CarouselFile(orig)} \cup ThumbFiles(orig, {"webp", "avif", "jpg"})

\* The files a generate call is to write when nothing raises.
ExpectedFiles(orig, keep) ==
    {CarouselFile(orig)}
        \cup ThumbFiles(orig, {"webp", "avif"} \cup (IF keep THEN {"jpg"} ELSE {}))

(***************************************************************************)
(* C1.  Round trip: from a directory that holds only the original, a       *)
(* generate that returns True (either keep flag, AVIF encoder present or   *)
(* not) followed by delete_original_and_thumbnails with the same argument, *)
(* no unlink raising, leaves no file in that directory.                    *)
(***************************************************************************)
C1_RoundTripLeavesNothing ==
    last.trip = "deleted" => InDirOf(files, LastOriginal) = {}

C1_Witness ==
    /\ last.trip = "deleted"
    /\ last.ret
    /\ last.count = 14

(***************************************************************************)
(* C2.  generate checks library present, then original exists, then        *)
(* extension processable; the first check that fails decides the result,   *)
(* the call returns False and the filesystem is as before.  Every .svg     *)
(* original is refused this way.                                           *)
(***************************************************************************)
C2_PreconditionOrder ==
    [][ last'.op = "generate" =>
          LET p == Resolve(static_dir, last'.path)
              refused(reason) ==
                  /\ ~last'.ret
                  /\ last'.reason = reason
                  /\ files' = files
          IN  /\ ~hasPillow => refused("no_pillow")
              /\ hasPillow /\ ~Exists(files, p) => refused("not_found")
              /\ hasPillow /\ Exists(files, p) /\ ~is_image_processable(p)
                    => refused("not_processable")
              /\ p.ext = "svg" => ~last'.ret /\ files' = files
      ]_vars

\* Two checks fail at once (the file is missing and it is an .svg): the
\* earlier one is reported.
C2_Witness ==
    /\ last.op = "generate"
    /\ hasPillow
    /\ LastOriginal.ext = "svg"
    /\ last.reason = "not_found"

(***************************************************************************)
(* C3.  When no AVIF encoder is installed, so that the AVIF save raises    *)
(* for every size, and no other save raises, generate with the legacy      *)
(* format kept writes the webp and the jpg file of each of the four sizes, *)
(* creates no avif file and returns True.                                  *)
(***************************************************************************)
C3_AvifUnavailable ==
    [][ ( /\ last'.op = "generate"
          /\ last'.keep
          /\ ~last'.avifOk
          /\ last'.failed # {}
          /\ \A f \in last'.failed : f.ext = "avif" )
        => LET orig == OriginalKey(static_dir, last'.path)
           IN  /\ last'.ret
               /\ last'.failed = ThumbFiles(orig, {"avif"})
               /\ ThumbFiles(orig, {"webp", "jpg"}) \subseteq files'
               /\ (files' \ files) \cap ThumbFiles(orig, {"avif"}) = {}
               /\ last'.count = 9
      ]_vars

C3_Witness ==
    /\ last.op = "generate"
    /\ last.keep
    /\ ~last.avifOk
    /\ last.failed = ThumbFiles(LastOriginal, {"avif"})
    /\ last.ret
    /\ files \cap ThumbFiles(LastOriginal, {"avif"}) = {}

RECURSIVE StepFiles(_, _)
StepFiles(orig, steps) ==
    IF steps = <<>> THEN <<>>
    ELSE <<FsKey(StepPath(orig, Head(steps)))>> \o StepFiles(orig, Tail(steps))

SaveOrder(orig, keep) == StepFiles(orig, GenSteps(keep))

\* Whether the save that ended the call is the k-th of order: the files
\* before it whose save did not raise exist, and they are all the call saved.
StoppedAt(order, k, failed, fs, count) ==
    LET saved == {i \in 1..(k - 1) : order[i] \notin failed}
    IN  /\ \A i \in saved : order[i] \in fs
        /\ count = Cardinality(saved)

C5_FilesAfterSuccess ==
    (last.op = "generate" /\ last.ret)
        => /\ CarouselFile(LastOriginal) \in files
           /\ ThumbFiles(LastOriginal, {"webp"}) \subseteq files
           /\ last.keep => ThumbFiles(LastOriginal, {"jpg"}) \subseteq files
           /\ \A f \in ThumbFiles(LastOriginal, {"webp"}) \cup {CarouselFile(LastOriginal)} :
                 f.dirs = LastOriginal.dirs
           /\ \A fmt \in {"avif", "jpg"} :
                 DerivedFile(LastOriginal, <<"carousel">>, fmt) \notin files

C5_Witness ==
    /\ last.op = "generate"
    /\ last.ret
    /\ ~last.keep
    /\ last.count = 5
    /\ files \cap ThumbFiles(LastOriginal, {"jpg"}) = {}

C7_NoDerivedFileLeft ==
    (last.op = "delete_thumbnails" /\ last.ret /\ last.failed = {})
        => files \cap DerivedFiles(LastOriginal) = {}

\* 9 of the 13 files existed (generated without the legacy format) and
\* were removed; the 4 jpg paths were passed over.
C7_Witness ==
    /\ last.op = "delete_thumbnails"
    /\ last.ret
    /\ last.failed = {}
    /\ last.count = 9
    /\ Cardinality(DerivedFiles(LastOriginal)) = 13

(***************************************************************************)
(* C8.  delete_original_and_thumbnails returns True only if no unlink, of  *)
(* a derived file or of the original, raised.                              *)
(***************************************************************************)
C8_TrueOnlyIfNothingRaised ==
    (last.op = "delete_original_and_thumbnails" /\ last.ret)
        => last.failed = {}

(***************************************************************************)
(* C9.  delete_thumbnails on an original that is missing, with none of its *)
(* derived files existing, changes nothing and returns True.               *)
(***************************************************************************)
C9_MissingOriginalIsSuccess ==
    ( /\ last.op = "delete_thumbnails"
      /\ LastOriginal \notin files
      /\ files \cap DerivedFiles(LastOriginal) = {} )
        => last.ret

(***************************************************************************)
(* C10.  As claimed: after generate calls that each returned True, made    *)
(* one after the other on the same original from a directory holding only  *)
(* the original, the derived files that exist are exactly the files the    *)
(* most recent call wrote.                                                 *)
(***************************************************************************)
C10_ExactlyLatestCall ==
    last.trip \in {"generated", "regenerated"}
        => files \cap DerivedFiles(LastOriginal)
             = ExpectedFiles(LastOriginal, last.keep) \ last.failed

(***************************************************************************)
(* C10, amended.  A generate call that returns True leaves exactly the     *)
(* files that existed before it together with the files it writes (the     *)
(* carousel, and per size webp, avif unless its save raised, jpg when the  *)
(* legacy format is kept): it overwrites in place and removes nothing, so  *)
(* after a sequence of such calls the derived files are the union of what  *)
(* the calls wrote, and files the most recent call did not write remain.   *)
(***************************************************************************)
C10_RegenerationOnlyAdds ==
    [][ (last'.op = "generate" /\ last'.ret)
        => LET orig    == OriginalKey(static_dir, last'.path)
               written == ExpectedFiles(orig, last'.keep) \ last'.failed
           IN  /\ files' = files \cup written
               /\ last'.count = Cardinality(written)
      ]_vars

\* A second generate, without the legacy format, returned True and the jpg
\* files of the first are still there.
C10_Witness ==
    /\ last.trip = "regenerated"
    /\ ~last.keep
    /\ last.count = 9
    /\ ThumbFiles(LastOriginal, {"jpg"}) \subseteq files

\* The branches on which the three functions return.
ReturnBranches ==
    { "no_pillow", "not_found", "not_processable", "error", "generated",
      "deleted", "original_absent", "unlink_error" }

LibraryCalls == {"generate", "delete_thumbnails", "delete_original_and_thumbnails"}

(***************************************************************************)
(* C14.  Every call of generate_thumbnails, delete_thumbnails and          *)
(* delete_original_and_thumbnails ends on a return statement with a        *)
(* boolean, whatever went wrong in it: library missing, file missing,      *)
(* format not processable, decode, encode or unlink raising.               *)
(***************************************************************************)
C14_NoExceptionEscapes ==
    last.op \in LibraryCalls =>
        /\ last.reason \in ReturnBranches
        /\ last.ret \in BOOLEAN
        /\ (last.failed # {} /\ last.op = "generate" /\ last.avifOk)
              => last.reason \in {"error", "generated"}

\* The unlink of the original raised inside delete_original_and_thumbnails,
\* and the call returned False.
C14_Witness ==
    /\ last.op = "delete_original_and_thumbnails"
    /\ LastOriginal \in last.failed
    /\ last.reason = "unlink_error"
    /\ ~last.ret

(***************************************************************************)
(* C15.  The application keeps derived files in step with the originals:   *)
(* once it has stored a processable original, the derived files of that    *)
(* original exist, and once it has removed an original none of them is     *)
(* left.  The handlers of the application write and unlink the original    *)
(* only, so the state right after an upload refutes it.                    *)
(***************************************************************************)
C15_LifecycleInApplication ==
    /\ (last.op = "upload" /\ hasPillow /\ is_image_processable(last.path))
          => /\ CarouselFile(LastOriginal) \in files
             /\ ThumbFiles(LastOriginal, {"webp"}) \subseteq files
    /\ last.op = "unlink" => DerivedFiles(LastOriginal) \cap files = {}

(***************************************************************************)
(* C16.  In every reachable state, if a derived file of an original        *)
(* exists, then that original has existed at some earlier time.            *)
(***************************************************************************)
C16_DerivedOnlyAfterOriginal ==
    \A p \in inputs :
        DerivedFiles(OriginalKey(static_dir, p)) \cap files # {}
            => OriginalKey(static_dir, p) \in seen

\* Derived files of an original that is gone again: it existed, was
\* processed and then removed alone.
C16_Witness ==
    \E p \in inputs :
        /\ DerivedFiles(OriginalKey(static_dir, p)) \cap files # {}
        /\ OriginalKey(static_dir, p) \notin files
        /\ OriginalKey(static_dir, p) \in seen

(***************************************************************************)
(* C21.  When an unlink raises inside delete_thumbnails, the loop goes on: *)
(* after the call the only derived files left are those whose unlink       *)
(* raised, so every other derived file that existed was removed.           *)
(***************************************************************************)
C21_UnlinkErrorDoesNotStopBatch ==
    (last.op = "delete_thumbnails" /\ last.failed # {})
        => files \cap DerivedFiles(LastOriginal) = last.failed

\* The unlink of the carousel, the first path, raised; files after it were
\* removed all the same.
C21_Witness ==
    /\ last.op = "delete_thumbnails"
    /\ last.failed = {CarouselFile(LastOriginal)}
    /\ last.count >= 8
    /\ files \cap DerivedFiles(LastOriginal) = last.failed

(***************************************************************************)
(* Callers with other base directories: static_dir absolute or relative to *)
(* the working directory, the original given relative to static_dir or     *)
(* absolute.                                                               *)
(***************************************************************************)
RelativeStaticDir == Dir(FALSE, <<"static">>)

InitBases ==
    \E base \in {AppStaticDir, RelativeStaticDir} :
    \E p \in { File(FALSE, PhotoDir, <<"a1">>, "jpg"),
               File(TRUE, AppStaticDir.dirs \o PhotoDir, <<"a1">>, "jpg") } :
        /\ files = {}
        /\ hasPillow = TRUE
        /\ static_dir = base
        /\ inputs = {p}
        /\ faults = 0
        /\ last = NoCall
        /\ seen = {}
        /\ procs = NoProcs
        /\ query = NoQuery

SpecBases == InitBases /\ [][Next]_vars

(***************************************************************************)
(* C23.  When delete_original_and_thumbnails finds the original and no     *)
(* unlink raises, it has removed the original and every derived file next  *)
(* to it, and returns True, whether the path and the base directory are    *)
(* absolute or relative.  A relative path under a relative base refutes    *)
(* it: the cleanup joins the base a second time and looks elsewhere.       *)
(***************************************************************************)
C23_CleanupInDirectoryOfOriginal ==
    (/\ last.op = "delete_original_and_thumbnails"
     /\ last.reason = "deleted"
     /\ last.failed = {})
        => /\ LastOriginal \notin files
           /\ files \cap DerivedFiles(LastOriginal) = {}
           /\ last.ret

\* One original beside a file that belongs to no call: the emblem.
Bystander == FsKey(File(TRUE, AppStaticDir.dirs \o PhotoDir, <<"logo">>, "svg"))

InitFrame ==
    /\ files = {Bystander}
    /\ hasPillow = TRUE
    /\ static_dir = AppStaticDir
    /\ inputs = {File(FALSE, PhotoDir, <<"a1">>, "jpg")}
    /\ faults = 0
    /\ last = NoCall
    /\ seen = {}
    /\ procs = NoProcs
    /\ query = NoQuery

SpecFrame == InitFrame /\ [][Next]_vars

\* The order the claim gives for the saves of generate: the carousel, then
\* for each size in configured order webp, avif and, if kept, jpg.
RECURSIVE WriteOrderFrom(_, _, _)
WriteOrderFrom(orig, keep, i) ==
    IF i > Len(THUMBNAIL_SIZES) THEN <<>>
    ELSE LET suffix == THUMBNAIL_SIZES[i].suffix
         IN  <<DerivedFile(orig, suffix, "webp"), DerivedFile(orig, suffix, "avif")>>
               \o (IF keep THEN <<DerivedFile(orig, suffix, "jpg")>> ELSE <<>>)
               \o WriteOrderFrom(orig, keep, i + 1)

WriteOrder(orig, keep) == <<CarouselFile(orig)>> \o WriteOrderFrom(orig, keep, 1)

\* The first n entries of a sequence, as a set.
FirstOf(seq, n) == {seq[i] : i \in 1..n}

\* Neither function touches the original or a file that is not one of the
\* 13 derived paths; delete_thumbnails creates nothing, generate removes
\* nothing.
FrameOfStep ==
    LET orig == OriginalKey(static_dir, last'.path)
    IN  /\ last'.op \in {"generate", "delete_thumbnails"}
            => /\ (files' \ files) \cup (files \ files') \subseteq DerivedFiles(orig)
               /\ orig \in files' <=> orig \in files
        /\ last'.op = "generate" => files \subseteq files'
        /\ last'.op = "delete_thumbnails" => files' \subseteq files

(***************************************************************************)
(* C25.  As stated: generate and delete_thumbnails leave the original and  *)
(* every file outside the 13 derived paths alone, and when generate stops  *)
(* early the files it wrote are the first files of the order carousel,     *)
(* then per size webp, avif, jpg, and they stay.  A call without an AVIF   *)
(* encoder that stops at a later save refutes the prefix: the avif files   *)
(* before the stop are missing among the files written.                    *)
(***************************************************************************)
C25_WrittenIsPrefix ==
    [][ /\ FrameOfStep
        /\ (last'.op = "generate" /\ ~last'.ret)
              => LET orig == OriginalKey(static_dir, last'.path)
                 IN  files' = files \cup FirstOf(WriteOrder(orig, last'.keep),
                                                  last'.count) ]_vars

\* C25, amended: the same frame, and the files generate wrote, whether it
\* stopped early or not, are the first files of that order with the avif
\* files whose save raised left out, and they stay.
C25_WrittenIsPrefixLessFailedAvif ==
    [][ /\ FrameOfStep
        /\ last'.op = "generate"
              => LET orig   == OriginalKey(static_dir, last'.path)
                     order  == WriteOrder(orig, last'.keep)
                     saved  == SelectSeq(order, LAMBDA f : f \notin last'.failed)
                 IN  /\ last'.count <= Len(saved)
                     /\ files' = files \cup FirstOf(saved, last'.count)
                     /\ last'.ret => last'.count = Len(saved) ]_vars

\* Without an AVIF encoder and with the legacy format kept, the webp save
\* of the second size raised: the carousel and the webp and jpg of the
\* first size are written, its avif is not.
C25_Witness ==
    /\ last.op = "generate"
    /\ ~last.ret
    /\ ~last.avifOk
    /\ last.keep
    /\ last.count = 3
    /\ DerivedFile(LastOriginal, <<"thumb", "md">>, "webp") \in last.failed
    /\ DerivedFile(LastOriginal, <<"thumb", "sm">>, "jpg") \in files
    /\ DerivedFile(LastOriginal, <<"thumb", "sm">>, "avif") \notin files
    /\ LastOriginal \in files
    /\ Bystander \in files

(***************************************************************************)
(* Two callers at once.  Each runs one call on its own original; a step is *)
(* one statement that looks a file up, writes it or removes it.            *)
(***************************************************************************)
\* A call in flight: pc is the statement it stands before, i the index of
\* its next save or unlink, ok the value it is going to return, touched the
\* files it has looked up, written or removed so far.
InFlight(op, path, keep) ==
    [op |-> op, path |-> path, keep |-> keep, pc |-> "exists", i |-> 1,
     ok |-> TRUE, touched |-> {}]

Returned(c, ret) == [c EXCEPT !.pc = "done", !.ok = ret]

Touch(c, path) == [c EXCEPT !.touched = @ \cup {FsKey(path)}]

\* One statement of generate_thumbnails: the preconditions, Image.open, or
\* the save of step i.
GenerateStmt(fs, pillow, base, c) ==
    LET p     == Resolve(base, c.path)
        steps == GenSteps(c.keep)
    IN  CASE c.pc = "exists" ->
               IF ~pillow THEN [fs |-> fs, call |-> Returned(c, FALSE)]
               ELSE IF ~Exists(fs, p) \/ ~is_image_processable(p)
               THEN [fs |-> fs, call |-> Returned(Touch(c, p), FALSE)]
               ELSE [fs |-> fs, call |-> [Touch(c, p) EXCEPT !.pc = "open"]]
          [] c.pc = "open" ->
               IF ~Exists(fs, p)
               THEN [fs |-> fs, call |-> Returned(Touch(c, p), FALSE)]
               ELSE [fs |-> fs, call |-> [Touch(c, p) EXCEPT !.pc = "save"]]
          [] c.pc = "save" ->
               LET path == StepPath(p, steps[c.i])
                   c1   == [Touch(c, path) EXCEPT !.i = @ + 1]
               IN  [fs   |-> Save(fs, path),
                    call |-> IF c.i = Len(steps) THEN Returned(c1, TRUE) ELSE c1]

\* Mutant: a derived path is looked up but never unlinked.
DeleteStmt_NoUnlink(fs, base, c, after) ==
    LET p == Resolve(base, c.path)
    IN  CASE c.pc = "exists" ->
               IF ~Exists(fs, p)
               THEN [fs |-> fs, call |-> [Touch(c, p) EXCEPT !.pc = after, !.ok = FALSE]]
               ELSE [fs |-> fs, call |-> [Touch(c, p) EXCEPT !.pc = "unlink"]]
          [] c.pc = "unlink" ->
               LET path == StepPath(p, DeleteSteps[c.i])
                   c1   == [Touch(c, path) EXCEPT !.i = @ + 1]
               IN  [fs   |-> fs,
                    call |-> IF c.i = Len(DeleteSteps)
                             THEN [c1 EXCEPT !.pc = after] ELSE c1]

\* One statement of delete_thumbnails: the lookup of the original, or the
\* "if path.exists(): path.unlink()" of step i.  after is where the caller
\* goes on: "done", or "original" inside delete_original_and_thumbnails.
DeleteStmt(fs, base, c, after) ==
    LET p == Resolve(base, c.path)
    IN  CASE c.pc = "exists" ->
               IF ~Exists(fs, p)
               THEN [fs |-> fs, call |-> [Touch(c, p) EXCEPT !.pc = after, !.ok = FALSE]]
               ELSE [fs |-> fs, call |-> [Touch(c, p) EXCEPT !.pc = "unlink"]]
          [] c.pc = "unlink" ->
               LET path == StepPath(p, DeleteSteps[c.i])
                   c1   == [Touch(c, path) EXCEPT !.i = @ + 1]
               IN  [fs   |-> Unlink(fs, path),
                    call |-> IF c.i = Len(DeleteSteps)
                             THEN [c1 EXCEPT !.pc = after] ELSE c1]

\* One statement of delete_original_and_thumbnails: those of the call of
\* delete_thumbnails, then "if original_path.exists(): original_path.unlink()".
DeleteOriginalStmt(fs, base, c) ==
    LET p == Resolve(base, c.path)
    IN  IF c.pc = "original"
        THEN [fs |-> Unlink(fs, p), call |-> Returned(Touch(c, p), c.ok)]
        ELSE DeleteStmt(fs, base, c, "original")

\* The whole call at once, as one caller alone runs it.
RunWhole(fs, pillow, base, c) ==
    CASE c.op = "generate" ->
           generate_thumbnails(fs, pillow, base, c.path, c.keep, TRUE, TRUE, {})
      [] c.op = "delete_thumbnails" ->
           delete_thumbnails(fs, base, c.path, {})
      [] c.op = "delete_original_and_thumbnails" ->
           delete_original_and_thumbnails(fs, base, c.path, {})

\* The first original, and the second originals it is paired with: another
\* stem in the same directory, another stem elsewhere, and a stem that
\* extends the first by a size suffix.
PairFirst == File(FALSE, PhotoDir, <<"a1">>, "jpg")

PairSeconds ==
    { File(FALSE, PhotoDir, <<"b2">>, "png"),
      File(FALSE, <<"uploads", "groups">>, <<"b2">>, "png"),
      File(FALSE, PhotoDir, <<"a1", "thumb", "sm">>, "webp") }

PairOps == {"generate", "delete_thumbnails", "delete_original_and_thumbnails"}

PairCalls(path) ==
    {InFlight(op, path, keep) :
        op \in PairOps, keep \in BOOLEAN} \ 
    {InFlight(op, path, TRUE) : op \in PairOps \ {"generate"}}

\* Both originals exist; their derived files all exist or none does.
InitPair ==
    \E second \in PairSeconds :
    \E c1 \in PairCalls(PairFirst), c2 \in PairCalls(second) :
    \E derived \in BOOLEAN :
        LET k1 == OriginalKey(AppStaticDir, PairFirst)
            k2 == OriginalKey(AppStaticDir, second)
            fs == {k1, k2}
                    \cup (IF derived
                          THEN DerivedKeys(AppStaticDir, PairFirst)
                                 \cup DerivedKeys(AppStaticDir, second)
                          ELSE {})
        IN  /\ files = fs
            /\ hasPillow = TRUE
            /\ static_dir = AppStaticDir
            /\ inputs = {PairFirst, second}
            /\ faults = 0
            /\ last = NoCall
            /\ seen = {k1, k2}
            /\ procs = [start |-> fs, calls |-> <<c1, c2>>]
            /\ query = NoQuery

Advance(n, out) ==
    /\ files' = out.fs
    /\ procs' = [procs EXCEPT !.calls[n] = out.call]
    /\ seen' = SeenAfter(files')
    /\ UNCHANGED <<hasPillow, static_dir, inputs, faults, last, query>>

GenerateStep(n) ==
    /\ procs.calls[n].op = "generate"
    /\ procs.calls[n].pc # "done"
    /\ Advance(n, GenerateStmt(files, hasPillow, static_dir, procs.calls[n]))

DeleteThumbnailsStep(n) ==
    /\ procs.calls[n].op = "delete_thumbnails"
    /\ procs.calls[n].pc # "done"
    /\ Advance(n, DeleteStmt(files, static_dir, procs.calls[n], "done"))

DeleteOriginalStep(n) ==
    /\ procs.calls[n].op = "delete_original_and_thumbnails"
    /\ procs.calls[n].pc # "done"
    /\ Advance(n, DeleteOriginalStmt(files, static_dir, procs.calls[n]))

NextPair ==
    \/ \E n \in {1, 2} : GenerateStep(n)
    \/ \E n \in {1, 2} : DeleteThumbnailsStep(n)
    \/ \E n \in {1, 2} : DeleteOriginalStep(n)

SpecPair == InitPair /\ [][NextPair]_vars

\* The two calls, their originals, and the two orders one after the other.
PairOriginal(n) == OriginalKey(static_dir, procs.calls[n].path)

PairDone == procs.calls[1].pc = "done" /\ procs.calls[2].pc = "done"

OneAfterTheOther(first, second) ==
    RunWhole(RunWhole(procs.start, hasPillow, static_dir, procs.calls[first]).fs,
             hasPillow, static_dir, procs.calls[second]).fs

DistinctStems == procs.calls[1].path.stem # procs.calls[2].path.stem

\* What one call touched is apart from what the other touched and from the
\* other's original.
PairDisjoint ==
    /\ procs.calls[1].touched \cap (procs.calls[2].touched \cup {PairOriginal(2)}) = {}
    /\ procs.calls[2].touched \cap (procs.calls[1].touched \cup {PairOriginal(1)}) = {}

PairSerial ==
    PairDone => /\ files = OneAfterTheOther(1, 2)
                /\ files = OneAfterTheOther(2, 1)

\* Neither original is a derived file of the other.
NeitherDerived ==
    /\ PairOriginal(1) \notin DerivedKeys(static_dir, procs.calls[2].path)
    /\ PairOriginal(2) \notin DerivedKeys(static_dir, procs.calls[1].path)

InitRace ==
    \E keep \in BOOLEAN, derived \in BOOLEAN :
        LET k  == OriginalKey(AppStaticDir, PairFirst)
            fs == {k} \cup (IF derived THEN DerivedKeys(AppStaticDir, PairFirst)
                            ELSE {})
        IN  /\ files = fs
            /\ hasPillow = TRUE
            /\ static_dir = AppStaticDir
            /\ inputs = {PairFirst}
            /\ faults = 0
            /\ last = NoCall
            /\ seen = {k}
            /\ procs = [start |-> fs,
                        calls |-> <<InFlight("generate", PairFirst, keep),
                                    InFlight("delete_thumbnails", PairFirst, FALSE)>>]
            /\ query = NoQuery

NextRace ==
    \/ GenerateStep(1)
    \/ DeleteThumbnailsStep(2)

SpecRace == InitRace /\ [][NextRace]_vars

(***************************************************************************)
(* C22.  generate_thumbnails and delete_thumbnails overlapping on one      *)
(* asset: whatever the interleaving, both calls return True, and a derived *)
(* file that exists after both have returned is one that generate wrote;   *)
(* the witness is an interleaving after which a file that the delete was   *)
(* to remove exists, in a filesystem neither sequential order gives.       *)
(***************************************************************************)
C22_DeleteSucceedsSurvivorsRewritten ==
    (PairDone /\ PairOriginal(1) = PairOriginal(2)) =>
        /\ procs.calls[1].ok
        /\ procs.calls[2].ok
        /\ files \cap DerivedFiles(PairOriginal(2)) \subseteq procs.calls[1].touched

\* Both calls returned, the delete returned True, a derived file that was
\* there when the delete began is there afterwards, and the filesystem is
\* that of neither order run one after the other.
C22_Witness ==
    /\ PairDone
    /\ PairOriginal(1) = PairOriginal(2)
    /\ procs.calls[1].op = "generate"
    /\ procs.calls[2].op = "delete_thumbnails" /\ procs.calls[2].ok
    /\ files \cap procs.start \cap DerivedFiles(PairOriginal(2)) # {}
    /\ files # OneAfterTheOther(1, 2)
    /\ files # OneAfterTheOther(2, 1)

(***************************************************************************)
(* The pure functions, applied to arguments drawn from bounded sets.       *)
(***************************************************************************)
\* str(path): the directory components, then the file name.
Str(p) ==
    [abs |-> p.abs, dirs |-> p.dirs, name |-> [stem |-> p.stem, ext |-> p.ext]]

\* Mutant: each path is inserted at the front of its list.
RECURSIVE AppendPaths_Prepend(_, _, _, _, _)
AppendPaths_Prepend(thumbs, path_obj, formats, i, j) ==
    IF i > Len(THUMBNAIL_SIZES) THEN thumbs
    ELSE IF j > Len(formats)
    THEN AppendPaths_Prepend(thumbs, path_obj, formats, i + 1, 1)
    ELSE LET fmt        == formats[j]
             thumb_path == DerivedPath(path_obj, THUMBNAIL_SIZES[i].suffix, fmt)
         IN  AppendPaths_Prepend([thumbs EXCEPT ![fmt] = <<Str(thumb_path)>> \o @],
                                 path_obj, formats, i, j + 1)

\* The two loops of get_thumbnail_paths from size i and format j on:
\* "thumbs[fmt].append(str(thumb_path))".
RECURSIVE AppendPaths(_, _, _, _, _)
AppendPaths(thumbs, path_obj, formats, i, j) ==
    IF i > Len(THUMBNAIL_SIZES) THEN thumbs
    ELSE IF j > Len(formats)
    THEN AppendPaths(thumbs, path_obj, formats, i + 1, 1)
    ELSE LET fmt        == formats[j]
             thumb_path == DerivedPath(path_obj, THUMBNAIL_SIZES[i].suffix, fmt)
         IN  AppendPaths([thumbs EXCEPT ![fmt] = Append(@, Str(thumb_path))],
                         path_obj, formats, i, j + 1)

\* Mutant: the default list lacks "jpg".
Requested_NoJpg(with_formats) ==
    IF with_formats = {} THEN <<"webp", "avif">> ELSE CHOOSE l \in with_formats : TRUE

\* with_formats is {} for None and {list} for a list.
Requested(with_formats) ==
    IF with_formats = {} THEN DefaultFormats ELSE CHOOSE l \in with_formats : TRUE

get_thumbnail_paths(original_path, with_formats) ==
    LET formats == Requested(with_formats)
        thumbs  == [fmt \in Range(formats) |-> <<>>]
    IN  AppendPaths(thumbs, original_path, formats, 1, 1)

\* Arguments: paths with and without directories, relative and absolute,
\* the same stem in several directories; format lists up to MaxFormats
\* long, with and without repeats, and None.
QueryPaths ==
    { File(FALSE, PhotoDir, <<"a1">>, "jpg"),
      File(FALSE, <<"uploads", "groups">>, <<"a1">>, "jpg"),
      File(TRUE, AppStaticDir.dirs \o PhotoDir, <<"a1">>, "jpg"),
      File(FALSE, <<>>, <<"a1">>, "jpg"),
      File(FALSE, PhotoDir, <<"a1", "thumb", "sm">>, "webp"),
      File(FALSE, PhotoDir, <<"b2">>, "PNG"),
      File(FALSE, PhotoDir, <<"logo">>, "svg") }

FormatNames == {"webp", "avif", "jpg", "png"}

FormatLists ==
    UNION {[1..n -> FormatNames] : n \in 0..MaxFormats}

\* A call about to be made: the function and its arguments.
PathQuestions ==
    {[fn |-> "none", ask |-> "get_thumbnail_paths", path |-> p, formats |-> wf] :
        p \in QueryPaths, wf \in {{}} \cup {{l} : l \in FormatLists}}

Asking(f) == query.fn = "none" /\ query.ask = f

Asked(q) ==
    /\ query' = q
    /\ UNCHANGED <<files, hasPillow, static_dir, inputs, faults, last, seen, procs>>

GetThumbnailPaths ==
    /\ Asking("get_thumbnail_paths")
    /\ Asked([fn |-> "get_thumbnail_paths", path |-> query.path,
              formats |-> query.formats,
              result |-> get_thumbnail_paths(query.path, query.formats)])

\* Every path string in a result of get_thumbnail_paths.
AllPaths(thumbs) == UNION {Range(thumbs[fmt]) : fmt \in DOMAIN thumbs}

IsPathsQuery == query.fn = "get_thumbnail_paths"

(***************************************************************************)
(* C12.  Every path get_thumbnail_paths(p) returns lies in the directory   *)
(* of p and is named {stem}-<suffix>.<fmt> for a configured size suffix    *)
(* and a requested format; and a path with the same stem in another        *)
(* directory gets derived paths that share none with those of p.           *)
(***************************************************************************)
C12_DerivedPathsInDirectory ==
    IsPathsQuery =>
        /\ \A r \in AllPaths(query.result) :
              /\ r.abs = query.path.abs
              /\ r.dirs = query.path.dirs
              /\ \E suffix \in ThumbSuffixes, fmt \in Range(Requested(query.formats)) :
                    r.name = [stem |-> query.path.stem \o suffix, ext |-> fmt]
        /\ \A other \in QueryPaths, lst \in {{}} \cup {{l} : l \in FormatLists} :
              (other.stem = query.path.stem /\ Parent(other) # Parent(query.path))
                  => AllPaths(get_thumbnail_paths(other, lst))
                        \cap AllPaths(query.result) = {}

\* A call with a non-empty result, for a path whose stem occurs in another
\* directory too.
C12_Witness ==
    /\ IsPathsQuery
    /\ AllPaths(query.result) # {}
    /\ \E other \in QueryPaths :
          other.stem = query.path.stem /\ Parent(other) # Parent(query.path)

\* The list a format gets when every size contributes one path, in order.
OnePerSize(path_obj, fmt) ==
    [i \in 1..Len(THUMBNAIL_SIZES) |->
        Str(DerivedPath(path_obj, THUMBNAIL_SIZES[i].suffix, fmt))]

Occurrences(formats, fmt) == Cardinality({j \in 1..Len(formats) : formats[j] = fmt})

(***************************************************************************)
(* C13.  As stated: for every format list, repeats included, and for the   *)
(* default, the keys are the requested formats and each value holds one    *)
(* path per entry of THUMBNAIL_SIZES, in that order.  A list that repeats  *)
(* a format refutes it.                                                    *)
(***************************************************************************)
C13_OnePathPerSize ==
    IsPathsQuery =>
        /\ DOMAIN query.result = Range(Requested(query.formats))
        /\ \A fmt \in DOMAIN query.result :
              query.result[fmt] = OnePerSize(query.path, fmt)

\* C13, amended: the keys are the requested formats; a format requested
\* once (as every format of the default list is) gets one path per entry of
\* THUMBNAIL_SIZES, in that order; a format requested k times gets k paths
\* per entry.
C13_OnePathPerSizeAndOccurrence ==
    IsPathsQuery =>
        LET formats == Requested(query.formats)
        IN  /\ DOMAIN query.result = Range(formats)
            /\ \A fmt \in DOMAIN query.result :
                  /\ Occurrences(formats, fmt) = 1
                        => query.result[fmt] = OnePerSize(query.path, fmt)
                  /\ Len(query.result[fmt])
                        = Occurrences(formats, fmt) * Len(THUMBNAIL_SIZES)
                  /\ Range(query.result[fmt]) = Range(OnePerSize(query.path, fmt))

\* A call with the default list, and a call with two different formats.
C13_Witness ==
    /\ IsPathsQuery
    /\ \/ query.formats = {}
       \/ \E l \in query.formats : Len(l) = 2 /\ l[1] # l[2]
    /\ \A fmt \in DOMAIN query.result : Len(query.result[fmt]) = Len(THUMBNAIL_SIZES)

(***************************************************************************)
(* Image.thumbnail and the two places that call it.                        *)
(***************************************************************************)
Abs(n) == IF n < 0 THEN -n ELSE n

Min(a, b) == IF a <= b THEN a ELSE b

Max(a, b) == IF a >= b THEN a ELSE b

Floor(a, b) == a \div b

Ceil(a, b) == (a \div b) + (IF a % b = 0 THEN 0 ELSE 1)

Dims(w, h) == [width |-> w, height |-> h]

\* round_aspect(y * aspect, key = |aspect - n / y|) with aspect = w / h:
\* of floor and ceil the one whose ratio to y is nearer the aspect, floor
\* on a tie, and at least 1.
RoundWidth(w, h, y) ==
    LET f == Floor(y * w, h)
        c == Ceil(y * w, h)
    IN  Max(IF Abs(w * y - f * h) <= Abs(w * y - c * h) THEN f ELSE c, 1)

\* round_aspect(x / aspect, key = 0 if n == 0 else |aspect - x / n|)
RoundHeight(w, h, x) ==
    LET f == Floor(x * h, w)
        c == Ceil(x * h, w)
    IN  Max(IF f = 0 THEN f
            ELSE IF Abs(w * f - x * h) * c <= Abs(w * c - x * h) * f THEN f ELSE c,
            1)

\* Mutant: the image is resized to the box itself.
Thumbnail_Stretch(w, h, x, y) == Dims(x, y)

\* img.thumbnail((x, y), ...) on an image of w x h: nothing when the box
\* holds the image, otherwise the largest size of the image's aspect ratio
\* inside the box.
Thumbnail(w, h, x, y) ==
    IF x >= w /\ y >= h THEN Dims(w, h)
    ELSE IF x * h >= w * y
    THEN Dims(RoundWidth(w, h, y), y)
    ELSE Dims(x, RoundHeight(w, h, x))

\* "(width, height) if height else (width, width)"
ThumbBox(size) ==
    IF size.height # 0 THEN Dims(size.width, size.height)
    ELSE Dims(size.width, size.width)

\* The thumbnail of entry i of THUMBNAIL_SIZES for an image of w x h.
ThumbDims(w, h, i) ==
    LET box == ThumbBox(THUMBNAIL_SIZES[i])
    IN  Thumbnail(w, h, box.width, box.height)

\* The side of the box of the carousel variant.
CarouselBox == 1000

\* Mutant: only the width decides, as the comment "if width > 1000px" has it.
CarouselDims_WidthOnly(w, h) ==
    IF w > CarouselBox
    THEN Thumbnail(w, h, CarouselBox, CarouselBox)
    ELSE Dims(w, h)

\* The carousel variant of an image of w x h.
CarouselDims(w, h) ==
    IF w > CarouselBox \/ h > CarouselBox
    THEN Thumbnail(w, h, CarouselBox, CarouselBox)
    ELSE Dims(w, h)

\* Widths and heights of sources: below, at and above every bound.
SourceSides ==
    {1, 50, 109, 110, 111, 165, 220, 329, 330, 331, 999, 1000, 1001, 1500, 2000}

ThumbQuestions ==
    {[fn |-> "none", ask |-> "thumbnail", width |-> w, height |-> h, size |-> i] :
        w \in SourceSides, h \in SourceSides, i \in 1..Len(THUMBNAIL_SIZES)}

CarouselQuestions ==
    {[fn |-> "none", ask |-> "carousel", width |-> w, height |-> h] :
        w \in SourceSides, h \in SourceSides}

ResizeThumb ==
    /\ Asking("thumbnail")
    /\ Asked([fn |-> "thumbnail", width |-> query.width, height |-> query.height,
              size |-> query.size,
              result |-> ThumbDims(query.width, query.height, query.size)])

ResizeCarousel ==
    /\ Asking("carousel")
    /\ Asked([fn |-> "carousel", width |-> query.width, height |-> query.height,
              result |-> CarouselDims(query.width, query.height)])

(***************************************************************************)
(* C17.  For a source of W x H and a configured size with bound B, the     *)
(* thumbnail is at most min(W, B) wide and at most min(H, B) high.         *)
(***************************************************************************)
C17_ThumbnailWithinSourceAndBound ==
    query.fn = "thumbnail" =>
        LET size == THUMBNAIL_SIZES[query.size]
        IN  /\ query.result.width <= Min(query.width, size.width)
            /\ query.result.height <= Min(query.height, size.height)
            /\ query.result.width >= 1
            /\ query.result.height >= 1

\* A 50 x 50 source stays 50 x 50, in the smallest size.
C17_Witness ==
    /\ query.fn = "thumbnail"
    /\ query.width = 50 /\ query.height = 50
    /\ query.size = 1
    /\ query.result = Dims(50, 50)

Image(mode, color, alpha) == [mode |-> mode, color |-> color, alpha |-> alpha]

White == <<255, 255, 255>>

\* img.convert(mode): the colour stays; RGBA keeps the alpha of the source
\* (of its band, or of the palette's transparency), RGB drops it.
Convert(img, mode) ==
    IF mode = "RGBA" THEN Image("RGBA", img.color, img.alpha)
    ELSE Image(mode, img.color, 255)

\* Mutant: paste without a mask, the pasted pixel replaces the background.
Paste_NoMask(background, img, masked) == Image(background.mode, img.color, 255)

\* background.paste(img, mask=...): with the alpha band as mask each channel
\* is src * a / 255 + dst * (255 - a) / 255, rounded; without a mask the
\* pasted pixel replaces the background.
Paste(background, img, masked) ==
    IF masked
    THEN Image(background.mode,
               [c \in 1..3 |->
                   (img.color[c] * img.alpha
                      + background.color[c] * (255 - img.alpha) + 127) \div 255],
               255)
    ELSE Image(background.mode, img.color, 255)

\* Lines 94-107: what the resize and encode steps get for the image opened.
Normalised(img) ==
    IF img.mode \in {"RGBA", "LA", "P"}
    THEN LET img1 == IF img.mode = "P" THEN Convert(img, "RGBA") ELSE img
         IN  IF img1.mode \in {"RGBA", "LA"}
             THEN LET background == Image("RGB", White, 255)
                      img2 == IF img1.mode = "LA" THEN Convert(img1, "RGBA")
                              ELSE img1
                  IN  Paste(background, img2, img2.mode = "RGBA")
             ELSE img1
    ELSE IF img.mode # "RGB" THEN Convert(img, "RGB")
    ELSE img

\* The modes Image.open gives for the processable formats, those with
\* alpha or palette transparency, and the pixels of each.
AlphaModes == {"RGBA", "LA", "P", "PA"}

GreyModes == {"1", "L", "LA", "I;16"}

SourceModes == AlphaModes \cup GreyModes \cup {"RGB", "CMYK", "YCbCr"}

SourceImages ==
    {Image(mode, color, alpha) :
        mode \in SourceModes,
        color \in {White, <<0, 0, 0>>, <<255, 0, 0>>},
        alpha \in {0, 128, 255}}
      \ ( {Image(mode, color, alpha) :
              mode \in SourceModes \ AlphaModes,
              color \in {White, <<0, 0, 0>>, <<255, 0, 0>>},
              alpha \in {0, 128}}
          \cup {Image(mode, <<255, 0, 0>>, alpha) :
              mode \in GreyModes, alpha \in {0, 128, 255}} )

ImageQuestions ==
    {[fn |-> "none", ask |-> "normalise", img |-> img] : img \in SourceImages}

Normalise ==
    /\ Asking("normalise")
    /\ Asked([fn |-> "normalise", img |-> query.img,
              result |-> Normalised(query.img)])

(***************************************************************************)
(* C19.  As stated: whatever the mode of the source, the image handed on   *)
(* is opaque RGB, and a pixel that was fully transparent in the source is  *)
(* white in it.  A palette image with an alpha band (mode PA) refutes it.  *)
(***************************************************************************)
C19_TransparentIsWhiteInEveryMode ==
    query.fn = "normalise" =>
        /\ query.result.mode = "RGB"
        /\ query.result.alpha = 255
        /\ query.img.alpha = 0 => query.result.color = White

\* C19, amended: whatever the mode of the source, the image handed on is
\* opaque RGB; a pixel that was fully transparent in a palette, RGBA or LA
\* source is white in it, and an opaque pixel keeps its colour; in any other
\* mode the alpha is dropped and the pixel keeps the colour it stored.
C19_TransparentIsWhiteInCompositedModes ==
    query.fn = "normalise" =>
        /\ query.result.mode = "RGB"
        /\ query.result.alpha = 255
        /\ (query.img.mode \in {"P", "RGBA", "LA"} /\ query.img.alpha = 0)
              => query.result.color = White
        /\ query.img.alpha = 255 => query.result.color = query.img.color
        /\ query.img.mode \notin {"P", "RGBA", "LA"}
              => query.result.color = query.img.color

\* A fully transparent red pixel of an RGBA source came out white.
C19_Witness ==
    /\ query.fn = "normalise"
    /\ query.img = Image("RGBA", <<255, 0, 0>>, 0)
    /\ query.result = Image("RGB", White, 255)

\* Suffixes of the paths asked about: every allow-listed spelling in lower,
\* upper and mixed case, and suffixes outside the list.
QueryExts ==
    { "jpg", "JPG", "Jpg", "jpeg", "JPEG", "png", "PNG", "gif", "GIF",
      "webp", "WebP", "bmp", "BMP", "tiff", "TIFF", "Tiff",
      "tif", "svg", "SVG", "txt", "pdf", "" }

ExtQuestions ==
    {[fn |-> "none", ask |-> "is_image_processable",
      path |-> File(FALSE, PhotoDir, <<"a1">>, ext)] : ext \in QueryExts}

IsImageProcessable ==
    /\ Asking("is_image_processable")
    /\ Asked([fn |-> "is_image_processable", path |-> query.path,
              result |-> is_image_processable(query.path)])

\* The spellings of QueryExts that name an allow-listed format whatever
\* their case: jpeg (jpg, jpeg), png, gif, webp, bmp, tiff.
AllowListedSpellings ==
    { "jpg", "JPG", "Jpg", "jpeg", "JPEG", "png", "PNG", "gif", "GIF",
      "webp", "WebP", "bmp", "BMP", "tiff", "TIFF", "Tiff" }

PathOf(s) == File(s.abs, s.dirs, s.name.stem, s.name.ext)

\* The three computations of the derived paths of one original: the paths
\* delete_thumbnails looks at, the paths generate_thumbnails saves to, and
\* the carousel path with every value of get_thumbnail_paths for the
\* resolved original.
DeleteTargets(base, original_path) ==
    {StepPath(Resolve(base, original_path), s) : s \in Range(DeleteSteps)}

GenerateTargets(base, original_path, keep) ==
    {StepPath(Resolve(base, original_path), s) : s \in Range(GenSteps(keep))}

ListedTargets(base, original_path) ==
    LET p == Resolve(base, original_path)
    IN  {DerivedPath(p, CarouselSuffix, "webp")}
          \cup {PathOf(s) : s \in AllPaths(get_thumbnail_paths(p, {}))}

TargetQuestions ==
    {[fn |-> "none", ask |-> "derived_paths", path |-> p, base |-> b, keep |-> keep] :
        p \in QueryPaths, b \in {AppStaticDir, RelativeStaticDir}, keep \in BOOLEAN}

DerivedTargets ==
    /\ Asking("derived_paths")
    /\ Asked([fn |-> "derived_paths", path |-> query.path, base |-> query.base,
              keep |-> query.keep,
              deleted |-> DeleteTargets(query.base, query.path),
              written |-> GenerateTargets(query.base, query.path, query.keep),
              listed |-> ListedTargets(query.base, query.path)])

(***************************************************************************)
(* C24.  For every original, the paths delete_thumbnails tries to remove   *)
(* are the carousel path together with the values of get_thumbnail_paths   *)
(* with the default formats, and every path generate_thumbnails writes,    *)
(* with either flag, is one of them.                                       *)
(***************************************************************************)
C24_PathComputationsAgree ==
    query.fn = "derived_paths" =>
        /\ query.deleted = query.listed
        /\ query.written \subseteq query.deleted
        /\ Cardinality(query.deleted) = 1 + 3 * Len(THUMBNAIL_SIZES)

\* A relative original under the relative base, without the legacy format:
\* 9 paths written out of 13.
C24_Witness ==
    /\ query.fn = "derived_paths"
    /\ ~query.path.abs /\ ~query.base.abs /\ ~query.keep
    /\ Cardinality(query.written) = 9
    /\ Cardinality(query.listed) = 13

Questions ==
    PathQuestions \cup ThumbQuestions \cup CarouselQuestions
        \cup ImageQuestions \cup ExtQuestions \cup TargetQuestions

InitPure ==
    /\ files = {}
    /\ hasPillow = TRUE
    /\ static_dir = AppStaticDir
    /\ inputs = {}
    /\ faults = 0
    /\ last = NoCall
    /\ seen = {}
    /\ procs = NoProcs
    /\ query \in Questions

NextPure ==
    \/ GetThumbnailPaths
    \/ ResizeThumb
    \/ ResizeCarousel
    \/ Normalise
    \/ IsImageProcessable
    \/ DerivedTargets

SpecPure == InitPure /\ [][NextPure]_vars

====
